---- MODULE Spec2Model ----
(***************************************************************************)
(* Order lifecycle (ship / deliver / cancel) and express checkout of the   *)
(* e-commerce backend.  One Order object is shared by the lifecycle        *)
(* requests; a request is a coroutine, so its steps are the code between   *)
(* two awaits.  The collaborators (persistence gateway, notification       *)
(* service, inventory service) answer nondeterministically.                *)
(***************************************************************************)
EXTENDS Integers, Sequences, FiniteSets, TLC

VARIABLES
    order,         \* the in-memory Order object handed to the lifecycle calls
    persisted,     \* status string the persistence gateway holds for the order
    dbWrites,      \* every status string written by update_order_status, in order
    pc,            \* per request: "idle", "persist", "notify", "done"
    op,            \* per request: the lifecycle operation it runs
    calls,         \* per request: the steps its current operation has taken
    result,        \* per request: what its operation returned or raised
    opCount,       \* number of calls started so far
    lastUpdate,    \* the most recent update_status call, as its caller saw it
    history,       \* every status the order has held, in order
    cart,          \* checkout_data["items"]: the product ids of the cart
    ck_pc,         \* position of the express_checkout coroutine
    ck_i,          \* index of the cart item / reservation being handled
    reservations,  \* accumulator of reservation ids
    order_items,   \* accumulator of order items (product ids)
    nextRes,       \* next reservation id the inventory service hands out
    saved,         \* number of order records save_order stored
    confirmed,     \* reservation ids confirm_reservation accepted, in order
    releases,      \* release_stock attempts: <<id, outcome>>, in order
    ck_err,        \* the exception being handled by express_checkout
    ck_result,     \* what express_checkout returned or raised
    ck_log,        \* collaborator calls of express_checkout, in order
    svc_op,        \* the discount / return operation called, "none" before
    disc_result,   \* what apply_discount_to_order returned or raised
    bulk_result,   \* what apply_bulk_discount returned or raised
    refund_result, \* what RefundCalculator.calculate_refund returned
    rt_pc,         \* position of the process_return coroutine
    rt_items,      \* items_to_return
    rt_i,          \* index of the item whose release_stock is awaited
    rt_refund,     \* refund_amount computed by process_return, in cents
    rt_released,   \* released_reservations
    rt_attempts,   \* release_stock calls of process_return: <<id, outcome>>
    rt_result      \* what process_return returned or raised

lifecycleVars == <<order, persisted, dbWrites, pc, op, calls, result, opCount,
                   lastUpdate, history>>
checkoutVars == <<cart, ck_pc, ck_i, reservations, order_items, nextRes, saved,
                  confirmed, releases, ck_err, ck_result, ck_log>>
serviceVars == <<svc_op, disc_result, bulk_result, refund_result, rt_pc,
                 rt_items, rt_i, rt_refund, rt_released, rt_attempts, rt_result>>
vars == <<order, persisted, dbWrites, pc, op, calls, result, opCount,
          lastUpdate, history, cart, ck_pc, ck_i, reservations, order_items,
          nextRes, saved, confirmed, releases, ck_err, ck_result, ck_log,
          svc_op, disc_result, bulk_result, refund_result, rt_pc, rt_items,
          rt_i, rt_refund, rt_released, rt_attempts, rt_result>>

\* ------------------------------------------------------------------ bounds
\* Number of concurrent lifecycle requests on the order.
MaxProcs == 2
\* Number of calls (lifecycle operations, direct update_status) in one run.
MaxOps == 3
\* Longest cart handed to express_checkout.
MaxCart == 3

\* Largest quantity handed to apply_bulk_discount.
MaxQty == 51
\* Longest item list handed to process_return and calculate_refund.
MaxReturnItems == 2

Procs == 1..MaxProcs

\* ------------------------------------------------------------ Order entity
OrderStatus == {"PENDING", "CONFIRMED", "SHIPPED", "DELIVERED", "CANCELLED"}

AllowedTransitions_DeliveredOpen ==
    { <<"PENDING", "SHIPPED">>, <<"CONFIRMED", "SHIPPED">>,
      <<"SHIPPED", "DELIVERED">>,
      <<"PENDING", "CANCELLED">>, <<"CONFIRMED", "CANCELLED">>,
      <<"SHIPPED", "CANCELLED">>, <<"DELIVERED", "CANCELLED">>,
      <<"DELIVERED", "DELIVERED">> }

\* The allowed set of update_status.
AllowedTransitions ==
    { <<"PENDING", "SHIPPED">>, <<"CONFIRMED", "SHIPPED">>,
      <<"SHIPPED", "DELIVERED">>,
      <<"PENDING", "CANCELLED">>, <<"CONFIRMED", "CANCELLED">>,
      <<"SHIPPED", "CANCELLED">> }

NoError == [type |-> "none", current |-> "-", requested |-> "-"]

InvalidTransition_Clobber(o, new) ==
    [ok |-> FALSE,
     order |-> [o EXCEPT !.status = new],
     err |-> [type |-> "InvalidTransition", current |-> new, requested |-> new]]

\* What update_status does with a transition outside the allowed set.
InvalidTransition(o, new) ==
    [ok |-> FALSE,
     order |-> o,
     err |-> [type |-> "InvalidTransition", current |-> o.status,
              requested |-> new]]

\* Order.update_status(new): the outcome, the order afterwards, the error raised.
update_status(o, new) ==
    IF <<o.status, new>> \in AllowedTransitions
    THEN [ok |-> TRUE, order |-> [o EXCEPT !.status = new], err |-> NoError]
    ELSE InvalidTransition(o, new)

\* Ghost bookkeeping of an update_status call made on `order` with target `new`.
RecordUpdate(new, r) ==
    /\ lastUpdate' = [called |-> TRUE, before |-> order, requested |-> new,
                      ok |-> r.ok, err |-> r.err, after |-> r.order]
    /\ history' = IF r.order.status # order.status
                  THEN Append(history, r.order.status) ELSE history

\* ------------------------------------------------- lifecycle orchestrator
LifecycleOps == {"mark_as_shipped", "mark_as_delivered", "cancel_order"}

\* The status each operation asks for and writes.
Target(o) ==
    CASE o = "mark_as_shipped" -> "SHIPPED"
      [] o = "mark_as_delivered" -> "DELIVERED"
      [] o = "cancel_order" -> "CANCELLED"

\* Errors the persistence gateway can raise: a ValueError (or a subclass of
\* it), or any other exception.
PersistErrors == {"ValueError", "DatabaseError"}

\* What send_notification can do: deliver, report failure, raise.
NotifyOutcomes == {"sent", "returned_false", "raised"}

NoResult == [type |-> "none", status |-> "-", cause |-> NoError]

Success(o) == [type |-> "success", status |-> Target(o), cause |-> NoError]

\* raise OrderStatusError(str(e))
OrderStatusError(e) == [type |-> "OrderStatusError", status |-> "-", cause |-> e]

\* An exception leaving the operation as it was raised.
Propagated(kind) ==
    [type |-> kind, status |-> "-",
     cause |-> [type |-> kind, current |-> "-", requested |-> "-"]]

\* A variant that admits one lifecycle operation at a time.
CanStart_Exclusive(p) ==
    /\ \A q \in Procs : pc[q] \in {"idle", "done"}
    /\ opCount < MaxOps

CanStart(p) == pc[p] \in {"idle", "done"} /\ opCount < MaxOps

\* A variant of the first step that assigns the target status directly.
LifecycleCall_Assign(p, o) ==
    /\ CanStart(p)
    /\ opCount' = opCount + 1
    /\ op' = [op EXCEPT ![p] = o]
    /\ LET r == [ok |-> TRUE, order |-> [order EXCEPT !.status = Target(o)],
                 err |-> NoError] IN
        /\ order' = r.order
        /\ RecordUpdate(Target(o), r)
        /\ pc' = [pc EXCEPT ![p] = "persist"]
        /\ calls' = [calls EXCEPT ![p] = <<"update_status:ok", "persist:call">>]
        /\ result' = [result EXCEPT ![p] = NoResult]
    /\ UNCHANGED <<persisted, dbWrites>>
    /\ UNCHANGED checkoutVars
    /\ UNCHANGED serviceVars

\* A variant of the first step that persists before checking the transition.
LifecycleCall_PersistFirst(p, o) ==
    /\ CanStart(p)
    /\ opCount' = opCount + 1
    /\ op' = [op EXCEPT ![p] = o]
    /\ LET r == update_status(order, Target(o)) IN
        /\ order' = r.order
        /\ RecordUpdate(Target(o), r)
        /\ pc' = [pc EXCEPT ![p] = "persist"]
        /\ calls' = [calls EXCEPT ![p] =
                        IF r.ok THEN <<"update_status:ok", "persist:call">>
                        ELSE <<"update_status:InvalidTransition", "persist:call">>]
        /\ result' = [result EXCEPT ![p] = NoResult]
    /\ UNCHANGED <<persisted, dbWrites>>
    /\ UNCHANGED checkoutVars
    /\ UNCHANGED serviceVars

\* The operation is called: order.update_status(target); on ValueError the
\* operation logs and raises OrderStatusError, otherwise it issues
\* update_order_status(order_id, target) and waits for it.
LifecycleCall(p, o) ==
    /\ CanStart(p)
    /\ opCount' = opCount + 1
    /\ op' = [op EXCEPT ![p] = o]
    /\ LET r == update_status(order, Target(o)) IN
        /\ order' = r.order
        /\ RecordUpdate(Target(o), r)
        /\ IF r.ok
           THEN /\ pc' = [pc EXCEPT ![p] = "persist"]
                /\ calls' = [calls EXCEPT ![p] =
                                <<"update_status:ok", "persist:call">>]
                /\ result' = [result EXCEPT ![p] = NoResult]
           ELSE /\ pc' = [pc EXCEPT ![p] = "done"]
                /\ calls' = [calls EXCEPT ![p] =
                                <<"update_status:InvalidTransition">>]
                /\ result' = [result EXCEPT ![p] = OrderStatusError(r.err)]
    /\ UNCHANGED <<persisted, dbWrites>>
    /\ UNCHANGED checkoutVars
    /\ UNCHANGED serviceVars

\* update_order_status returned: the gateway holds the new status; the
\* operation builds a StatusNotifier and issues the notification.
LifecyclePersisted(p, o) ==
    /\ pc[p] = "persist" /\ op[p] = o
    /\ persisted' = Target(o)
    /\ dbWrites' = Append(dbWrites, Target(o))
    /\ pc' = [pc EXCEPT ![p] = "notify"]
    /\ calls' = [calls EXCEPT ![p] = @ \o <<"persist:ok", "notify:call">>]
    /\ UNCHANGED <<order, op, result, opCount, lastUpdate, history>>
    /\ UNCHANGED checkoutVars
    /\ UNCHANGED serviceVars

\* The handler of the operation's try block: `except ValueError` wraps the
\* error in OrderStatusError, every other exception leaves as raised.
Raised(kind) ==
    IF kind = "ValueError"
    THEN OrderStatusError([type |-> kind, current |-> "-", requested |-> "-"])
    ELSE Propagated(kind)

\* A variant that swallows the persistence failure and goes on to notify.
LifecyclePersistFailed_Continue(p, o) ==
    /\ pc[p] = "persist" /\ op[p] = o
    /\ \E kind \in PersistErrors :
        calls' = [calls EXCEPT ![p] =
                     @ \o <<"persist:raise:" \o kind, "notify:call">>]
    /\ pc' = [pc EXCEPT ![p] = "notify"]
    /\ UNCHANGED <<order, persisted, dbWrites, op, result, opCount, lastUpdate,
                   history>>
    /\ UNCHANGED checkoutVars
    /\ UNCHANGED serviceVars

\* update_order_status raised: nothing was written; the error meets the
\* operation's `except ValueError` clause.
LifecyclePersistFailed(p, o) ==
    /\ pc[p] = "persist" /\ op[p] = o
    /\ \E kind \in PersistErrors :
        /\ result' = [result EXCEPT ![p] = Raised(kind)]
        /\ calls' = [calls EXCEPT ![p] = Append(@, "persist:raise:" \o kind)]
    /\ pc' = [pc EXCEPT ![p] = "done"]
    /\ UNCHANGED <<order, persisted, dbWrites, op, opCount, lastUpdate, history>>
    /\ UNCHANGED checkoutVars
    /\ UNCHANGED serviceVars

\* A notifier that lets a send_notification exception through.
send_status_notification_Raises(outcome) ==
    CASE outcome = "sent" -> "True"
      [] outcome = "returned_false" -> "True"
      [] outcome = "raised" -> "raise:NotificationError"

\* StatusNotifier.send_*: True when send_notification returned, False when
\* it raised (the exception is logged and swallowed).
send_status_notification(outcome) ==
    CASE outcome = "sent" -> "True"
      [] outcome = "returned_false" -> "True"
      [] outcome = "raised" -> "False"

\* The notifier returned: its value is ignored, the operation logs and
\* returns its result record.  (An exception out of the notifier would leave
\* the operation as raised.)
LifecycleNotified(p, o) ==
    /\ pc[p] = "notify" /\ op[p] = o
    /\ \E outcome \in NotifyOutcomes :
        LET sent == send_status_notification(outcome) IN
        /\ calls' = [calls EXCEPT ![p] = Append(@, "notify:" \o outcome)]
        /\ result' = [result EXCEPT ![p] =
                         IF sent \in {"True", "False"} THEN Success(o)
                         ELSE Propagated("NotificationError")]
    /\ pc' = [pc EXCEPT ![p] = "done"]
    /\ UNCHANGED <<order, persisted, dbWrites, op, opCount, lastUpdate, history>>
    /\ UNCHANGED checkoutVars
    /\ UNCHANGED serviceVars

Lifecycle(p, o) ==
    \/ LifecycleCall(p, o)
    \/ LifecyclePersisted(p, o)
    \/ LifecyclePersistFailed(p, o)
    \/ LifecycleNotified(p, o)

mark_as_shipped_Assign(p) ==
    \/ LifecycleCall_Assign(p, "mark_as_shipped")
    \/ LifecyclePersisted(p, "mark_as_shipped")
    \/ LifecyclePersistFailed(p, "mark_as_shipped")
    \/ LifecycleNotified(p, "mark_as_shipped")

mark_as_shipped(p) == Lifecycle(p, "mark_as_shipped")

mark_as_delivered(p) == Lifecycle(p, "mark_as_delivered")

cancel_order_Assign(p) ==
    \/ LifecycleCall_Assign(p, "cancel_order")
    \/ LifecyclePersisted(p, "cancel_order")
    \/ LifecyclePersistFailed(p, "cancel_order")
    \/ LifecycleNotified(p, "cancel_order")

cancel_order(p) == Lifecycle(p, "cancel_order")

\* A caller invokes order.update_status(new) itself.
update_status_call(new) ==
    /\ opCount < MaxOps
    /\ opCount' = opCount + 1
    /\ LET r == update_status(order, new) IN
        /\ order' = r.order
        /\ RecordUpdate(new, r)
    /\ UNCHANGED <<persisted, dbWrites, pc, op, calls, result>>
    /\ UNCHANGED checkoutVars
    /\ UNCHANGED serviceVars

\* ------------------------------------------------------------ initial state
NoUpdate == [called |-> FALSE, before |-> [order_id |-> "-"], requested |-> "-",
             ok |-> FALSE, err |-> NoError, after |-> [order_id |-> "-"]]

\* An order as loaded for a lifecycle call: PENDING as constructed, or
\* CONFIRMED by the payment flow; the gateway holds the same status.
LifecycleInit ==
    /\ \E s \in {"PENDING", "CONFIRMED"} :
        /\ order = [order_id |-> "ORD-1", user_id |-> "u1", status |-> s,
                    subtotal |-> 10000, tax |-> 800, total |-> 10800]
        /\ persisted = s
        /\ history = <<s>>
    /\ dbWrites = <<>>
    /\ pc = [p \in Procs |-> "idle"]
    /\ op = [p \in Procs |-> "-"]
    /\ calls = [p \in Procs |-> <<>>]
    /\ result = [p \in Procs |-> NoResult]
    /\ opCount = 0
    /\ lastUpdate = NoUpdate

\* No checkout request in flight.
CheckoutIdle ==
    /\ cart = <<>>
    /\ ck_pc = "idle"
    /\ ck_i = 1
    /\ reservations = <<>>
    /\ order_items = <<>>
    /\ nextRes = 1
    /\ saved = 0
    /\ confirmed = <<>>
    /\ releases = <<>>
    /\ ck_err = "-"
    /\ ck_result = [status |-> "none", items_count |-> 0, message |-> "-"]
    /\ ck_log = <<>>

NoDiscountResult ==
    [type |-> "none", reason |-> "-", code |-> "-", discount_amount |-> 0,
     original_total |-> 0, new_subtotal |-> 0, new_tax |-> 0, new_total |-> 0]

NoBulkResult ==
    [type |-> "none", reason |-> "-", quantity |-> 0, base_price |-> 0,
     discount_percent |-> 0, unit_price |-> 0, subtotal |-> 0, tax |-> 0,
     total |-> 0]

NoRefundResult == [called |-> FALSE, items |-> <<>>, refund |-> 0]

NoReturnResult == [type |-> "none", reason |-> "-", refund_amount |-> 0,
                   released_reservations |-> <<>>]

\* No discount or return request in flight.
ServiceIdle ==
    /\ svc_op = "none"
    /\ disc_result = NoDiscountResult
    /\ bulk_result = NoBulkResult
    /\ refund_result = NoRefundResult
    /\ rt_pc = "idle"
    /\ rt_items = <<>>
    /\ rt_i = 1
    /\ rt_refund = 0
    /\ rt_released = <<>>
    /\ rt_attempts = <<>>
    /\ rt_result = NoReturnResult

Init == LifecycleInit /\ CheckoutIdle /\ ServiceIdle

Next ==
    \E p \in Procs :
        \/ mark_as_shipped(p)
        \/ mark_as_delivered(p)
        \/ cancel_order(p)

\* Lifecycle requests on one order.
Spec == Init /\ [][Next]_vars

DirectNext == \E new \in OrderStatus : update_status_call(new)

StatusNext == Next \/ DirectNext

\* Lifecycle requests mixed with direct update_status calls.
StatusSpec == Init /\ [][StatusNext]_vars

\* --------------------------------------------------------- express checkout
\* Product ids a cart can name; get_product_by_id knows those of Catalog.
Products == {"p1", "px"}

Catalog == {"p1"}

Carts == UNION { [1..n -> Products] : n \in 0..MaxCart }

\* What release_stock can do: release, report failure, raise.
ReleaseOutcomes == {"True", "False", "raised"}

NoCheckoutResult == [status |-> "none", items_count |-> 0, message |-> "-"]

\* An exception of the given kind is raised inside the try block: control
\* passes to the except clauses, which start _cleanup_reservations.
Fail(kind) ==
    /\ ck_err' = kind
    /\ ck_pc' = "cleanup"
    /\ ck_i' = 1

\* End of one iteration of `for item_data in items_raw`.
NextItem ==
    IF ck_i < Len(cart)
    THEN ck_pc' = "lookup" /\ ck_i' = ck_i + 1
    ELSE ck_pc' = "construct" /\ ck_i' = 1

\* express_checkout is called: reservations = [], order_items = [], and the
\* loop over the cart begins.
express_checkout_start ==
    /\ ck_pc = "start"
    /\ IF cart = <<>>
       THEN ck_pc' = "construct"
       ELSE ck_pc' = "lookup"
    /\ UNCHANGED <<cart, ck_i, reservations, order_items, nextRes, saved,
                   confirmed, releases, ck_err, ck_result, ck_log>>
    /\ UNCHANGED lifecycleVars
    /\ UNCHANGED serviceVars

\* A variant without the `continue` for a product that was not found.
get_product_returns_NoSkip ==
    /\ ck_pc = "lookup"
    /\ ck_log' = Append(ck_log, <<"get_product_by_id", ck_i>>)
    /\ \/ /\ ck_pc' = "reserve"
          /\ UNCHANGED <<ck_i, ck_err>>
       \/ Fail("DatabaseError")
    /\ UNCHANGED <<cart, reservations, order_items, nextRes, saved, confirmed,
                   releases, ck_result>>
    /\ UNCHANGED lifecycleVars
    /\ UNCHANGED serviceVars

\* get_product_by_id answers: a product, nothing (`continue`), or an error.
get_product_returns ==
    /\ ck_pc = "lookup"
    /\ ck_log' = Append(ck_log, <<"get_product_by_id", ck_i>>)
    /\ \/ /\ cart[ck_i] \in Catalog
          /\ ck_pc' = "reserve"
          /\ UNCHANGED <<ck_i, ck_err>>
       \/ /\ cart[ck_i] \notin Catalog
          /\ NextItem
          /\ UNCHANGED ck_err
       \/ Fail("DatabaseError")
    /\ UNCHANGED <<cart, reservations, order_items, nextRes, saved, confirmed,
                   releases, ck_result>>
    /\ UNCHANGED lifecycleVars
    /\ UNCHANGED serviceVars

\* A variant that records the reservation id only after the OrderItem is built.
reserve_stock_returns_LateAppend ==
    /\ ck_pc = "reserve"
    /\ \/ /\ nextRes' = nextRes + 1
          /\ ck_log' = Append(ck_log, <<"reserve_stock", nextRes>>)
          /\ \/ /\ order_items' = Append(order_items, cart[ck_i])
                /\ reservations' = Append(reservations, nextRes)
                /\ NextItem
                /\ UNCHANGED ck_err
             \/ /\ Fail("ValueError")
                /\ UNCHANGED <<order_items, reservations>>
       \/ /\ Fail("InventoryError")
          /\ ck_log' = Append(ck_log, <<"reserve_stock", 0>>)
          /\ UNCHANGED <<reservations, nextRes, order_items>>
    /\ UNCHANGED <<cart, saved, confirmed, releases, ck_result>>
    /\ UNCHANGED lifecycleVars
    /\ UNCHANGED serviceVars

\* reserve_stock answers: a reservation, whose id is appended to the
\* accumulator before the OrderItem is built (which can fail), or an error.
reserve_stock_returns ==
    /\ ck_pc = "reserve"
    /\ \/ /\ reservations' = Append(reservations, nextRes)
          /\ nextRes' = nextRes + 1
          /\ ck_log' = Append(ck_log, <<"reserve_stock", nextRes>>)
          /\ \/ /\ order_items' = Append(order_items, cart[ck_i])
                /\ NextItem
                /\ UNCHANGED ck_err
             \/ /\ Fail("ValueError")
                /\ UNCHANGED order_items
       \/ /\ Fail("InventoryError")
          /\ ck_log' = Append(ck_log, <<"reserve_stock", 0>>)
          /\ UNCHANGED <<reservations, nextRes, order_items>>
    /\ UNCHANGED <<cart, saved, confirmed, releases, ck_result>>
    /\ UNCHANGED lifecycleVars
    /\ UNCHANGED serviceVars

\* A variant without the `if not order_items` check.
construct_order_NoEmptyCheck ==
    /\ ck_pc = "construct"
    /\ ck_log' = Append(ck_log, <<"Order", Len(order_items)>>)
    /\ \/ ck_pc' = "save" /\ UNCHANGED <<ck_i, ck_err>>
       \/ Fail("ValueError")
    /\ UNCHANGED <<cart, reservations, order_items, nextRes, saved, confirmed,
                   releases, ck_result>>
    /\ UNCHANGED lifecycleVars
    /\ UNCHANGED serviceVars

\* After the loop: no order items raises ExpressCheckoutError; otherwise
\* Order(...) runs its validation and, when it passes, save_order is issued.
construct_order ==
    /\ ck_pc = "construct"
    /\ \/ /\ order_items = <<>>
          /\ Fail("ExpressCheckoutError")
          /\ UNCHANGED ck_log
       \/ /\ order_items # <<>>
          /\ ck_log' = Append(ck_log, <<"Order", Len(order_items)>>)
          /\ \/ ck_pc' = "save" /\ UNCHANGED <<ck_i, ck_err>>
             \/ Fail("ValueError")
    /\ UNCHANGED <<cart, reservations, order_items, nextRes, saved, confirmed,
                   releases, ck_result>>
    /\ UNCHANGED lifecycleVars
    /\ UNCHANGED serviceVars

\* save_order answers: the record is stored and the confirmation loop
\* begins, or an error.
save_order_returns ==
    /\ ck_pc = "save"
    /\ \/ /\ saved' = saved + 1
          /\ ck_log' = Append(ck_log, <<"save_order", 1>>)
          /\ ck_pc' = "confirm"
          /\ ck_i' = 1
          /\ UNCHANGED ck_err
       \/ /\ Fail("DatabaseError")
          /\ ck_log' = Append(ck_log, <<"save_order", 0>>)
          /\ UNCHANGED saved
    /\ UNCHANGED <<cart, reservations, order_items, nextRes, confirmed, releases,
                   ck_result>>
    /\ UNCHANGED lifecycleVars
    /\ UNCHANGED serviceVars

\* A variant whose confirmation loop returns after its first turn.
confirm_reservation_returns_First ==
    /\ ck_pc = "confirm"
    /\ ck_log' = Append(ck_log, <<"confirm_reservation", reservations[ck_i]>>)
    /\ \/ /\ confirmed' = Append(confirmed, reservations[ck_i])
          /\ ck_pc' = "done"
          /\ ck_result' = [status |-> "success",
                           items_count |-> Len(order_items),
                           message |-> "-"]
          /\ UNCHANGED <<ck_i, ck_err>>
       \/ /\ Fail("InventoryError")
          /\ UNCHANGED <<confirmed, ck_result>>
    /\ UNCHANGED <<cart, reservations, order_items, nextRes, saved, releases>>
    /\ UNCHANGED lifecycleVars
    /\ UNCHANGED serviceVars

\* confirm_reservation(reservations[ck_i]) answers; after the last one the
\* call logs and returns its result record.
confirm_reservation_returns ==
    /\ ck_pc = "confirm"
    /\ ck_log' = Append(ck_log, <<"confirm_reservation", reservations[ck_i]>>)
    /\ \/ /\ confirmed' = Append(confirmed, reservations[ck_i])
          /\ IF ck_i < Len(reservations)
             THEN /\ ck_i' = ck_i + 1
                  /\ UNCHANGED <<ck_pc, ck_result>>
             ELSE /\ ck_pc' = "done"
                  /\ ck_result' = [status |-> "success",
                                   items_count |-> Len(order_items),
                                   message |-> "-"]
                  /\ UNCHANGED ck_i
          /\ UNCHANGED ck_err
       \/ /\ Fail("InventoryError")
          /\ UNCHANGED <<confirmed, ck_result>>
    /\ UNCHANGED <<cart, reservations, order_items, nextRes, saved, releases>>
    /\ UNCHANGED lifecycleVars
    /\ UNCHANGED serviceVars

\* A cleanup loop that a raising release_stock ends.
cleanup_reservations_StopOnFailure ==
    /\ ck_pc = "cleanup"
    /\ ck_i <= Len(reservations)
    /\ \E outcome \in ReleaseOutcomes :
        /\ releases' = Append(releases, <<reservations[ck_i], outcome>>)
        /\ ck_i' = IF outcome = "raised" THEN Len(reservations) + 1
                   ELSE ck_i + 1
    /\ ck_log' = Append(ck_log, <<"release_stock", reservations[ck_i]>>)
    /\ UNCHANGED <<cart, ck_pc, reservations, order_items, nextRes, saved,
                   confirmed, ck_err, ck_result>>
    /\ UNCHANGED lifecycleVars
    /\ UNCHANGED serviceVars

\* _cleanup_reservations: one turn of its loop.  release_stock is awaited for
\* reservations[ck_i]; an exception is logged and the loop goes on.
cleanup_reservations ==
    /\ ck_pc = "cleanup"
    /\ ck_i <= Len(reservations)
    /\ \E outcome \in ReleaseOutcomes :
        releases' = Append(releases, <<reservations[ck_i], outcome>>)
    /\ ck_i' = ck_i + 1
    /\ ck_log' = Append(ck_log, <<"release_stock", reservations[ck_i]>>)
    /\ UNCHANGED <<cart, ck_pc, reservations, order_items, nextRes, saved,
                   confirmed, ck_err, ck_result>>
    /\ UNCHANGED lifecycleVars
    /\ UNCHANGED serviceVars

\* A variant that raises without waiting for _cleanup_reservations to finish.
express_checkout_raise_Early ==
    /\ ck_pc = "cleanup"
    /\ ck_pc' = "done"
    /\ ck_result' = [status |-> "ExpressCheckoutError",
                     items_count |-> 0,
                     message |-> IF ck_err = "ExpressCheckoutError"
                                 THEN "No valid items in cart"
                                 ELSE "Checkout failed: " \o ck_err]
    /\ UNCHANGED <<cart, ck_i, reservations, order_items, nextRes, saved,
                   confirmed, releases, ck_err, ck_log>>
    /\ UNCHANGED lifecycleVars
    /\ UNCHANGED serviceVars

\* _cleanup_reservations returned: ExpressCheckoutError is re-raised as it
\* is, any other exception is logged and wrapped in ExpressCheckoutError.
express_checkout_raise ==
    /\ ck_pc = "cleanup"
    /\ ck_i > Len(reservations)
    /\ ck_pc' = "done"
    /\ ck_result' = [status |-> "ExpressCheckoutError",
                     items_count |-> 0,
                     message |-> IF ck_err = "ExpressCheckoutError"
                                 THEN "No valid items in cart"
                                 ELSE "Checkout failed: " \o ck_err]
    /\ UNCHANGED <<cart, ck_i, reservations, order_items, nextRes, saved,
                   confirmed, releases, ck_err, ck_log>>
    /\ UNCHANGED lifecycleVars
    /\ UNCHANGED serviceVars

\* One express_checkout call on a cart; no lifecycle request runs.
CheckoutInit ==
    /\ LifecycleInit
    /\ ServiceIdle
    /\ cart \in Carts
    /\ ck_pc = "start"
    /\ ck_i = 1
    /\ reservations = <<>>
    /\ order_items = <<>>
    /\ nextRes = 1
    /\ saved = 0
    /\ confirmed = <<>>
    /\ releases = <<>>
    /\ ck_err = "-"
    /\ ck_result = NoCheckoutResult
    /\ ck_log = <<>>

CheckoutNext ==
    \/ express_checkout_start
    \/ get_product_returns
    \/ reserve_stock_returns
    \/ construct_order
    \/ save_order_returns
    \/ confirm_reservation_returns
    \/ cleanup_reservations
    \/ express_checkout_raise

CheckoutSpec == CheckoutInit /\ [][CheckoutNext]_vars

\* ------------------------------------------------------------ money, tax
\* Amounts are integer cents.  TAX_RATE of config.settings, in percent.
TaxRatePercent == 8

\* round(n / d): the nearest integer, an exact half going to the even one.
\* (No input of this model produces an exact half, where the binary float
\* of the source would decide.)
RoundDiv(n, d) ==
    LET q == n \div d
        r == n % d
    IN  IF 2 * r < d THEN q
        ELSE IF 2 * r > d THEN q + 1
        ELSE IF q % 2 = 0 THEN q ELSE q + 1

Min(a, b) == IF a <= b THEN a ELSE b

\* ------------------------------------------------------------- discounts
\* DISCOUNT_CODES: value in percent or in cents, min_order in cents.
DISCOUNT_CODES ==
    [c \in {"SAVE10", "FLAT20", "BULK5"} |->
        CASE c = "SAVE10" -> [type |-> "percentage", value |-> 10, min_order |-> 5000]
          [] c = "FLAT20" -> [type |-> "flat", value |-> 2000, min_order |-> 10000]
          [] c = "BULK5" -> [type |-> "percentage", value |-> 5, min_order |-> 20000]]

\* Discount codes a caller can send.
CodeInputs == {"SAVE10", "save10", "FLAT20", "BULK5", "BOGUS"}

\* discount_code.upper()
Upper(c) == IF c = "save10" THEN "SAVE10" ELSE c

\* Order.can_cancel()
can_cancel(o) == o.status \in {"PENDING", "CONFIRMED", "SHIPPED"}

DiscountError(code, why) ==
    [type |-> "DiscountError", reason |-> why, code |-> code,
     discount_amount |-> 0, original_total |-> 0, new_subtotal |-> 0,
     new_tax |-> 0, new_total |-> 0]

\* The arithmetic of apply_discount_to_order and its result record.
DiscountRecord(o, code, discount) ==
    LET discount_amount ==
            IF discount.type = "percentage"
            THEN RoundDiv(o.subtotal * discount.value, 100)
            ELSE Min(discount.value, o.subtotal)
        new_subtotal == o.subtotal - discount_amount
        new_tax == RoundDiv(new_subtotal * TaxRatePercent, 100)
    IN  [type |-> "success", reason |-> "-", code |-> code,
         discount_amount |-> discount_amount,
         original_total |-> o.total,
         new_subtotal |-> new_subtotal,
         new_tax |-> new_tax,
         new_total |-> new_subtotal + new_tax]

\* The checks of apply_discount_to_order, in their order.  belowMin is the
\* outcome of `new_total < MIN_ORDER_AMOUNT`, a limit of config.settings.
DiscountOutcome_NoStatusGate(o, code, belowMin) ==
    IF Upper(code) \notin DOMAIN DISCOUNT_CODES
    THEN DiscountError(code, "invalid_code")
    ELSE LET discount == DISCOUNT_CODES[Upper(code)] IN
         IF o.subtotal < discount.min_order
         THEN DiscountError(code, "below_min_order")
         ELSE IF belowMin
         THEN DiscountError(code, "below_min_total")
         ELSE DiscountRecord(o, code, discount)

DiscountOutcome(o, code, belowMin) ==
    IF Upper(code) \notin DOMAIN DISCOUNT_CODES
    THEN DiscountError(code, "invalid_code")
    ELSE LET discount == DISCOUNT_CODES[Upper(code)] IN
         IF ~can_cancel(o)
         THEN DiscountError(code, "status")
         ELSE IF o.subtotal < discount.min_order
         THEN DiscountError(code, "below_min_order")
         ELSE IF belowMin
         THEN DiscountError(code, "below_min_total")
         ELSE DiscountRecord(o, code, discount)

\* A variant that stores the discounted figures in the order.
apply_discount_to_order_Mutating(code) ==
    /\ svc_op \in {"none", "discount"}
    /\ svc_op' = "discount"
    /\ \E belowMin \in BOOLEAN :
        LET r == DiscountOutcome(order, code, belowMin) IN
        /\ disc_result' = r
        /\ order' = IF r.type = "success"
                    THEN [order EXCEPT !.subtotal = r.new_subtotal,
                                       !.tax = r.new_tax,
                                       !.total = r.new_total]
                    ELSE order
    /\ UNCHANGED <<persisted, dbWrites, pc, op, calls, result, opCount,
                   lastUpdate, history>>
    /\ UNCHANGED <<bulk_result, refund_result, rt_pc, rt_items, rt_i,
                   rt_refund, rt_released, rt_attempts, rt_result>>
    /\ UNCHANGED checkoutVars

\* apply_discount_to_order(order, discount_code): it has no await, reads the
\* order and returns a record or raises DiscountError.
apply_discount_to_order(code) ==
    /\ svc_op \in {"none", "discount"}
    /\ svc_op' = "discount"
    /\ \E belowMin \in BOOLEAN :
        disc_result' = DiscountOutcome(order, code, belowMin)
    /\ UNCHANGED <<bulk_result, refund_result, rt_pc, rt_items, rt_i,
                   rt_refund, rt_released, rt_attempts, rt_result>>
    /\ UNCHANGED lifecycleVars
    /\ UNCHANGED checkoutVars

\* Base prices of the products of the catalog, in cents.
BasePrices == {1999, 1000}

\* A variant of the tiers with strict comparisons.
bulk_discount_pct_Strict(quantity) ==
    IF quantity > 50 THEN 15
    ELSE IF quantity > 20 THEN 10
    ELSE IF quantity > 10 THEN 5
    ELSE 0

\* The discount tier of apply_bulk_discount, in percent.
bulk_discount_pct(quantity) ==
    IF quantity >= 50 THEN 15
    ELSE IF quantity >= 20 THEN 10
    ELSE IF quantity >= 10 THEN 5
    ELSE 0

BulkError(quantity, why) ==
    [type |-> "DiscountError", reason |-> why, quantity |-> quantity,
     base_price |-> 0, discount_percent |-> 0, unit_price |-> 0,
     subtotal |-> 0, tax |-> 0, total |-> 0]

\* The arithmetic of apply_bulk_discount and its result record.
BulkRecord(base_price, quantity) ==
    LET discount_pct == bulk_discount_pct(quantity)
        unit_price == RoundDiv(base_price * (100 - discount_pct), 100)
        subtotal == unit_price * quantity
        tax == RoundDiv(subtotal * TaxRatePercent, 100)
    IN  [type |-> "success", reason |-> "-", quantity |-> quantity,
         base_price |-> base_price, discount_percent |-> discount_pct,
         unit_price |-> unit_price, subtotal |-> subtotal, tax |-> tax,
         total |-> subtotal + tax]

\* What the collaborators of apply_bulk_discount can answer.
LookupAnswers == {"found", "absent", "raised"}

StockAnswers == {"in_stock", "out_of_stock", "update_raised"}

\* apply_bulk_discount(product_id, quantity, user_id): the user and the
\* product are looked up, the stock of a local Product object is checked and
\* reduced, and the tiered price is computed; every exception other than
\* DiscountError is wrapped in DiscountError.
apply_bulk_discount(quantity) ==
    /\ svc_op = "none"
    /\ svc_op' = "bulk"
    /\ \E user \in LookupAnswers, product \in LookupAnswers,
          stock \in StockAnswers, base_price \in BasePrices :
        bulk_result' =
            IF user = "raised" THEN BulkError(quantity, "exception")
            ELSE IF user = "absent" THEN BulkError(quantity, "user_not_found")
            ELSE IF product = "raised" THEN BulkError(quantity, "exception")
            ELSE IF product = "absent"
            THEN BulkError(quantity, "product_not_found")
            ELSE IF stock = "out_of_stock"
            THEN BulkError(quantity, "out_of_stock")
            ELSE IF stock = "update_raised"
            THEN BulkError(quantity, "exception")
            ELSE BulkRecord(base_price, quantity)
    /\ UNCHANGED <<disc_result, refund_result, rt_pc, rt_items, rt_i,
                   rt_refund, rt_released, rt_attempts, rt_result>>
    /\ UNCHANGED lifecycleVars
    /\ UNCHANGED checkoutVars

\* ----------------------------------------------------- returns and refunds
\* Items of a return request: unit price in cents, quantity, and the
\* reservation id they carry (0: none; otherwise their position).
ReturnItems ==
    [unit_price : {5000, 1999, 0}, quantity : {1, 2},
     reservation_id : 0..MaxReturnItems]

ReturnLists ==
    { l \in UNION { [1..n -> ReturnItems] : n \in 0..MaxReturnItems } :
        \A i \in 1..Len(l) : l[i].reservation_id \in {0, i} }

RECURSIVE SumLines(_)
\* sum(item["unit_price"] * item["quantity"] for item in items)
SumLines(items) ==
    IF items = <<>> THEN 0
    ELSE items[1].unit_price * items[1].quantity + SumLines(Tail(items))

\* A variant that truncates the tax credit to whole cents.
calculate_refund_Truncating(items) ==
    IF items = <<>> THEN 0
    ELSE LET subtotal == SumLines(items)
             tax_credit == (subtotal * TaxRatePercent) \div 100
         IN  subtotal + tax_credit

\* RefundCalculator.calculate_refund(items), in cents.
calculate_refund(items) ==
    IF items = <<>> THEN 0
    ELSE LET subtotal == SumLines(items)
             tax_credit == RoundDiv(subtotal * TaxRatePercent, 100)
         IN  subtotal + tax_credit

\* A caller (get_return_eligibility, a test) computes a refund.
calculate_refund_call ==
    /\ svc_op = "none"
    /\ svc_op' = "refund"
    /\ \E items \in ReturnLists :
        refund_result' = [called |-> TRUE, items |-> items,
                          refund |-> calculate_refund(items)]
    /\ UNCHANGED <<disc_result, bulk_result, rt_pc, rt_items, rt_i, rt_refund,
                   rt_released, rt_attempts, rt_result>>
    /\ UNCHANGED lifecycleVars
    /\ UNCHANGED checkoutVars

ReturnError(why) ==
    [type |-> "ReturnError", reason |-> why, refund_amount |-> 0,
     released_reservations |-> <<>>]

\* The first item at or after position `from` that carries a reservation id.
NextWithReservation(items, from) ==
    IF \E j \in from..Len(items) : items[j].reservation_id # 0
    THEN CHOOSE j \in from..Len(items) :
            /\ items[j].reservation_id # 0
            /\ \A k \in from..(j - 1) : items[k].reservation_id = 0
    ELSE Len(items) + 1

\* The release loop of process_return goes on from position `from`: it waits
\* for the next release_stock, or for update_order_status after the loop.
ReleaseFrom(items, from) ==
    LET j == NextWithReservation(items, from) IN
    IF j <= Len(items)
    THEN rt_pc' = "release" /\ rt_i' = j
    ELSE rt_pc' = "persist" /\ rt_i' = j

\* process_return(order_id, user_id, items_to_return, reason) is called and
\* waits for get_user_by_id.
process_return_call ==
    /\ svc_op = "none"
    /\ svc_op' = "return"
    /\ rt_pc = "idle"
    /\ rt_pc' = "user"
    /\ \E items \in ReturnLists : rt_items' = items
    /\ UNCHANGED <<disc_result, bulk_result, refund_result, rt_i, rt_refund,
                   rt_released, rt_attempts, rt_result>>
    /\ UNCHANGED lifecycleVars
    /\ UNCHANGED checkoutVars

\* A variant without the `refund_amount <= 0` check.
return_get_user_returns_NoRefundCheck ==
    /\ rt_pc = "user"
    /\ \E user \in LookupAnswers :
        IF user # "found"
        THEN /\ rt_result' = ReturnError(IF user = "absent"
                                         THEN "user_not_found" ELSE "exception")
             /\ rt_pc' = "done"
             /\ UNCHANGED <<rt_i, rt_refund>>
        ELSE IF rt_items = <<>>
        THEN /\ rt_result' = ReturnError("no_items")
             /\ rt_pc' = "done"
             /\ UNCHANGED <<rt_i, rt_refund>>
        ELSE /\ rt_refund' = calculate_refund(rt_items)
             /\ ReleaseFrom(rt_items, 1)
             /\ UNCHANGED rt_result
    /\ UNCHANGED <<svc_op, disc_result, bulk_result, refund_result, rt_items,
                   rt_released, rt_attempts>>
    /\ UNCHANGED lifecycleVars
    /\ UNCHANGED checkoutVars

\* get_user_by_id answers; for a known user the item list and the refund
\* amount are validated and the release loop begins.
return_get_user_returns ==
    /\ rt_pc = "user"
    /\ \E user \in LookupAnswers :
        IF user # "found"
        THEN /\ rt_result' = ReturnError(IF user = "absent"
                                         THEN "user_not_found" ELSE "exception")
             /\ rt_pc' = "done"
             /\ UNCHANGED <<rt_i, rt_refund>>
        ELSE IF rt_items = <<>>
        THEN /\ rt_result' = ReturnError("no_items")
             /\ rt_pc' = "done"
             /\ UNCHANGED <<rt_i, rt_refund>>
        ELSE IF calculate_refund(rt_items) <= 0
        THEN /\ rt_result' = ReturnError("zero_refund")
             /\ rt_refund' = calculate_refund(rt_items)
             /\ rt_pc' = "done"
             /\ UNCHANGED rt_i
        ELSE /\ rt_refund' = calculate_refund(rt_items)
             /\ ReleaseFrom(rt_items, 1)
             /\ UNCHANGED rt_result
    /\ UNCHANGED <<svc_op, disc_result, bulk_result, refund_result, rt_items,
                   rt_released, rt_attempts>>
    /\ UNCHANGED lifecycleVars
    /\ UNCHANGED checkoutVars

\* A variant that gives the return up when a release reports failure.
return_release_returns_StopOnFailure ==
    /\ rt_pc = "release"
    /\ \E outcome \in ReleaseOutcomes :
        /\ rt_attempts' = Append(rt_attempts,
                                 <<rt_items[rt_i].reservation_id, outcome>>)
        /\ rt_released' = IF outcome = "True"
                          THEN Append(rt_released, rt_items[rt_i].reservation_id)
                          ELSE rt_released
        /\ IF outcome # "True"
           THEN /\ rt_result' = ReturnError("exception")
                /\ rt_pc' = "done"
                /\ UNCHANGED rt_i
           ELSE /\ ReleaseFrom(rt_items, rt_i + 1)
                /\ UNCHANGED rt_result
    /\ UNCHANGED <<svc_op, disc_result, bulk_result, refund_result, rt_items,
                   rt_refund>>
    /\ UNCHANGED lifecycleVars
    /\ UNCHANGED checkoutVars

\* release_stock(reservation_id) answers for item rt_i: a success is recorded
\* in released_reservations, an exception ends the call in ReturnError.
return_release_returns ==
    /\ rt_pc = "release"
    /\ \E outcome \in ReleaseOutcomes :
        /\ rt_attempts' = Append(rt_attempts,
                                 <<rt_items[rt_i].reservation_id, outcome>>)
        /\ rt_released' = IF outcome = "True"
                          THEN Append(rt_released, rt_items[rt_i].reservation_id)
                          ELSE rt_released
        /\ IF outcome = "raised"
           THEN /\ rt_result' = ReturnError("exception")
                /\ rt_pc' = "done"
                /\ UNCHANGED rt_i
           ELSE /\ ReleaseFrom(rt_items, rt_i + 1)
                /\ UNCHANGED rt_result
    /\ UNCHANGED <<svc_op, disc_result, bulk_result, refund_result, rt_items,
                   rt_refund>>
    /\ UNCHANGED lifecycleVars
    /\ UNCHANGED checkoutVars

\* update_order_status(order_id, "refunded") answers: the gateway holds
\* "refunded" and the result record is returned, or the error is wrapped in
\* ReturnError.
return_persist_returns ==
    /\ rt_pc = "persist"
    /\ rt_pc' = "done"
    /\ \/ /\ persisted' = "refunded"
          /\ dbWrites' = Append(dbWrites, "refunded")
          /\ rt_result' = [type |-> "approved", reason |-> "-",
                           refund_amount |-> rt_refund,
                           released_reservations |-> rt_released]
       \/ /\ rt_result' = ReturnError("exception")
          /\ UNCHANGED <<persisted, dbWrites>>
    /\ UNCHANGED <<order, pc, op, calls, result, opCount, lastUpdate, history>>
    /\ UNCHANGED <<svc_op, disc_result, bulk_result, refund_result, rt_items,
                   rt_i, rt_refund, rt_released, rt_attempts>>
    /\ UNCHANGED checkoutVars

\* Subtotals of the orders a discount is asked for, in cents.
OrderSubtotals == {4000, 10000, 25000}

\* An order at any stage of its lifecycle, with the totals Order computes;
\* no request in flight.
ServiceInit ==
    /\ \E s \in OrderStatus, sub \in OrderSubtotals :
        /\ order = [order_id |-> "ORD-1", user_id |-> "u1", status |-> s,
                    subtotal |-> sub,
                    tax |-> RoundDiv(sub * TaxRatePercent, 100),
                    total |-> sub + RoundDiv(sub * TaxRatePercent, 100)]
        /\ persisted = s
        /\ history = <<s>>
    /\ dbWrites = <<>>
    /\ pc = [p \in Procs |-> "idle"]
    /\ op = [p \in Procs |-> "-"]
    /\ calls = [p \in Procs |-> <<>>]
    /\ result = [p \in Procs |-> NoResult]
    /\ opCount = 0
    /\ lastUpdate = NoUpdate
    /\ CheckoutIdle
    /\ ServiceIdle

ServiceNext ==
    \/ \E code \in CodeInputs : apply_discount_to_order(code)
    \/ \E quantity \in 1..MaxQty : apply_bulk_discount(quantity)
    \/ calculate_refund_call
    \/ process_return_call
    \/ return_get_user_returns
    \/ return_release_returns
    \/ return_persist_returns

\* One discount, refund or return request on an order.
ServiceSpec == ServiceInit /\ [][ServiceNext]_vars

\* ------------------------------------------------------------------ claims
Last(s) == s[Len(s)]

Contains(s, e) == \E i \in 1..Len(s) : s[i] = e

Terminal == {"DELIVERED", "CANCELLED"}

\* C1: update_status succeeds, and sets the status to the requested one,
\* exactly for PENDING->SHIPPED, CONFIRMED->SHIPPED, SHIPPED->DELIVERED and
\* PENDING/CONFIRMED/SHIPPED->CANCELLED; for every other pair it fails.
C1_SucceedsIffAllowed ==
    lastUpdate.called =>
        LET cur == lastUpdate.before.status
            new == lastUpdate.requested
            allowed ==
                \/ cur \in {"PENDING", "CONFIRMED"} /\ new = "SHIPPED"
                \/ cur = "SHIPPED" /\ new = "DELIVERED"
                \/ cur \in {"PENDING", "CONFIRMED", "SHIPPED"} /\ new = "CANCELLED"
        IN  /\ lastUpdate.ok <=> allowed
            /\ lastUpdate.ok => lastUpdate.after.status = new

C1_Witness ==
    /\ lastUpdate.called /\ lastUpdate.ok
    /\ lastUpdate.before.status = "SHIPPED"
    /\ lastUpdate.requested = "DELIVERED"
    /\ order.status = "DELIVERED"

\* C2: a rejected update_status raises InvalidTransition carrying the
\* current and the requested status, and leaves every field of the order as
\* it was before the call.
C2_RejectedLeavesOrder ==
    (lastUpdate.called /\ ~lastUpdate.ok) =>
        /\ lastUpdate.err = [type |-> "InvalidTransition",
                             current |-> lastUpdate.before.status,
                             requested |-> lastUpdate.requested]
        /\ lastUpdate.after = lastUpdate.before

C2_Witness ==
    /\ lastUpdate.called /\ ~lastUpdate.ok
    /\ lastUpdate.before.status = "CANCELLED"
    /\ lastUpdate.requested = "SHIPPED"
    /\ order = lastUpdate.before

\* C3: once the order is DELIVERED or CANCELLED no update_status,
\* mark_as_shipped, mark_as_delivered or cancel_order call changes its
\* status, and update_status(DELIVERED) on a DELIVERED order fails.
C3_TerminalStays ==
    /\ [][order.status \in Terminal => order'.status = order.status]_vars
    /\ []((lastUpdate.called /\ lastUpdate.before.status = "DELIVERED"
              /\ lastUpdate.requested = "DELIVERED") => ~lastUpdate.ok)

C3_Witness ==
    /\ order.status = "DELIVERED"
    /\ lastUpdate.called /\ ~lastUpdate.ok
    /\ lastUpdate.before.status = "DELIVERED"
    /\ lastUpdate.requested = "DELIVERED"

Rank(s) ==
    CASE s = "PENDING" -> 1
      [] s = "CONFIRMED" -> 2
      [] s = "SHIPPED" -> 3
      [] s = "DELIVERED" -> 4
      [] s = "CANCELLED" -> 5

\* C4: the statuses the order holds over any sequence of lifecycle
\* operations move forward along PENDING, CONFIRMED, SHIPPED, DELIVERED, or
\* from a non-terminal status to CANCELLED; none is held twice.
C4_Monotonic ==
    /\ Last(history) = order.status
    /\ \A i \in 1..(Len(history) - 1) :
        LET a == history[i]
            b == history[i + 1]
        IN  \/ b = "CANCELLED" /\ a \notin Terminal
            \/ a # "CANCELLED" /\ b # "CANCELLED" /\ Rank(a) < Rank(b)
    /\ \A i, j \in 1..Len(history) : i < j => history[i] # history[j]

C4_Witness ==
    /\ Len(history) >= 3
    /\ Last(history) = "CANCELLED"
    /\ lastUpdate.called /\ ~lastUpdate.ok

\* C5: when update_status rejects the transition, the lifecycle operation
\* ends in OrderStatusError naming the illegal transition, and it calls
\* neither update_order_status nor send_notification.
C5_RejectedNoEffect ==
    \A p \in Procs :
        Contains(calls[p], "update_status:InvalidTransition") =>
            /\ calls[p] = <<"update_status:InvalidTransition">>
            /\ pc[p] = "done"
            /\ result[p].type = "OrderStatusError"
            /\ result[p].cause.type = "InvalidTransition"
            /\ result[p].cause.requested = Target(op[p])
            /\ result[p].cause.current \in
                   IF op[p] = "mark_as_delivered"
                   THEN OrderStatus \ {"SHIPPED"}
                   ELSE IF op[p] = "mark_as_shipped"
                   THEN {"SHIPPED", "DELIVERED", "CANCELLED"}
                   ELSE Terminal

C5_Witness ==
    \E p \in Procs :
        /\ op[p] = "mark_as_delivered"
        /\ calls[p] = <<"update_status:InvalidTransition">>
        /\ result[p].type = "OrderStatusError"
        /\ result[p].cause.current = "PENDING"
        /\ dbWrites = <<>>

\* C6: when the notification fails after the transition and the persistence
\* write succeeded, the operation still returns its success record, and the
\* in-memory status and the persisted status are left as they are.
C6_NotificationBestEffort ==
    [][\A p \in Procs :
          (pc[p] = "notify" /\ pc'[p] = "done"
              /\ Last(calls'[p]) \in {"notify:raised", "notify:returned_false"})
          => /\ result'[p] = Success(op[p])
             /\ result'[p].status = Target(op[p])
             /\ Contains(calls[p], "persist:ok")
             /\ order' = order
             /\ persisted' = persisted
             /\ dbWrites' = dbWrites]_vars

C6_Witness ==
    \E p \in Procs :
        /\ pc[p] = "done" /\ op[p] = "mark_as_shipped"
        /\ Last(calls[p]) = "notify:raised"
        /\ result[p].type = "success"
        /\ order.status = "SHIPPED" /\ persisted = "SHIPPED"

IndexOf(s, e) == CHOOSE i \in 1..Len(s) : s[i] = e

\* C7: in one lifecycle operation update_order_status is called only after
\* update_status succeeded, and the notification is dispatched only after
\* update_order_status returned successfully.
C7_StepOrder ==
    \A p \in Procs :
        /\ Contains(calls[p], "persist:call") =>
            /\ Contains(calls[p], "update_status:ok")
            /\ IndexOf(calls[p], "update_status:ok")
                  < IndexOf(calls[p], "persist:call")
        /\ Contains(calls[p], "notify:call") =>
            /\ Contains(calls[p], "persist:ok")
            /\ IndexOf(calls[p], "persist:call")
                  < IndexOf(calls[p], "persist:ok")
            /\ IndexOf(calls[p], "persist:ok")
                  < IndexOf(calls[p], "notify:call")
        /\ Contains(calls[p], "persist:ok") => Contains(dbWrites, Target(op[p]))

C7_Witness ==
    \E p \in Procs :
        /\ op[p] = "cancel_order"
        /\ calls[p] = <<"update_status:ok", "persist:call", "persist:ok",
                        "notify:call", "notify:sent">>

\* C8: a failure raised by update_order_status reaches the caller as the
\* error the gateway raised, whatever its kind, and never as an
\* OrderStatusError; only a rejected transition gives OrderStatusError.
C8_PersistenceErrorUnwrapped ==
    \A p \in Procs :
        /\ \A kind \in PersistErrors :
              (pc[p] = "done" /\ Contains(calls[p], "persist:raise:" \o kind))
                  => result[p].type = kind
        /\ result[p].type = "OrderStatusError"
              => calls[p] = <<"update_status:InvalidTransition">>

Count(s, e) == Cardinality({i \in 1..Len(s) : s[i] = e})

ReleasedIds == [i \in 1..Len(releases) |-> releases[i][1]]

\* C9: when express_checkout ends, every reservation obtained from
\* reserve_stock has been confirmed or release-attempted exactly once:
\* never both, never twice, never neither.
C9_ConfirmedOrReleasedOnce ==
    ck_pc = "done" =>
        \A i \in 1..Len(reservations) :
            Count(confirmed, reservations[i])
                + Count(ReleasedIds, reservations[i]) = 1

\* C10: when express_checkout fails with n reservations accumulated, the
\* compensation attempts release_stock exactly once for each of the n ids,
\* in accumulation order, whether or not single releases fail.
C10_CompensationReleasesAll ==
    /\ ck_pc = "cleanup" => ReleasedIds = SubSeq(reservations, 1, ck_i - 1)
    /\ (ck_pc = "done" /\ ck_result.status = "ExpressCheckoutError")
          => ReleasedIds = reservations

C10_Witness ==
    /\ ck_pc = "done"
    /\ ck_result.status = "ExpressCheckoutError"
    /\ ck_err = "ValueError"
    /\ Len(order_items) = 3
    /\ Len(reservations) = 3
    /\ Len(releases) = 3
    /\ releases[2][2] = "raised"
    /\ releases[1][2] = "True" /\ releases[3][2] = "True"
    /\ saved = 0

\* The entries of ck_log made by the collaborator `name`.
LogOf(name) == SelectSeq(ck_log, LAMBDA e : e[1] = name)

\* The step express_checkout failed in: its last call other than release_stock.
FailedAt ==
    LET body == SelectSeq(ck_log, LAMBDA e : e[1] # "release_stock")
    IN  IF body = <<>> THEN <<"none", 0>> ELSE body[Len(body)]

\* C11: every reservation id reserve_stock returned is in the accumulator
\* before any later step can fail, so at every failure point the accumulator
\* holds all reservations made so far, the one just acquired included.
C11_AccumulatorComplete ==
    /\ reservations = [i \in 1..(nextRes - 1) |-> i]
    /\ ck_pc \in {"cleanup", "done"} =>
          Len(reservations) = Len(SelectSeq(ck_log,
                  LAMBDA e : e[1] = "reserve_stock" /\ e[2] > 0))

C11_Witness ==
    /\ ck_pc = "cleanup"
    /\ ck_err = "ValueError"
    /\ FailedAt = <<"reserve_stock", 2>>
    /\ reservations = <<1, 2>>
    /\ Len(order_items) = 1

\* C12: every failure of express_checkout reaches the caller as
\* ExpressCheckoutError, raised only after the compensation has run once
\* over all accumulated reservations; on success compensation never runs.
C12_CompensationBeforeError ==
    /\ [][/\ (ck_pc # "done" /\ ck_pc' = "done"
                 /\ ck_result'.status # "success")
              => /\ ck_pc = "cleanup"
                 /\ ck_i > Len(reservations)
                 /\ ReleasedIds = reservations
                 /\ ck_result'.status = "ExpressCheckoutError"
          /\ ck_pc = "cleanup" => ck_pc' \in {"cleanup", "done"}
          /\ ck_pc = "done" => UNCHANGED checkoutVars
          /\ (ck_err = "-" /\ ck_err' # "-") => (ck_pc' = "cleanup" /\ ck_i' = 1)
       ]_vars
    /\ [](/\ ck_err # "-" => ck_pc \in {"cleanup", "done"}
          /\ (ck_pc = "done" /\ ck_err # "-")
                => ck_result.status = "ExpressCheckoutError"
          /\ (ck_pc = "done" /\ ck_result.status = "success")
                => (ck_err = "-" /\ releases = <<>>)
          /\ ck_err = "-" => releases = <<>>)

C12_Witness ==
    /\ ck_pc = "done"
    /\ ck_result.status = "ExpressCheckoutError"
    /\ ck_result.message = "Checkout failed: DatabaseError"
    /\ FailedAt = <<"save_order", 0>>
    /\ Len(reservations) = 2
    /\ ReleasedIds = reservations

\* C13: when no cart item resolves (or the cart is empty) express_checkout
\* fails with 'No valid items in cart'; no reservation was made, and
\* release_stock, save_order and confirm_reservation are never called.
C13_NoValidItems ==
    /\ (\A i \in 1..Len(cart) : cart[i] \notin Catalog) =>
          /\ reservations = <<>> /\ releases = <<>>
          /\ saved = 0 /\ confirmed = <<>>
          /\ LogOf("reserve_stock") = <<>> /\ LogOf("save_order") = <<>>
          /\ LogOf("confirm_reservation") = <<>>
          /\ LogOf("release_stock") = <<>>
          /\ (ck_pc = "done" /\ ck_err # "DatabaseError") =>
                /\ ck_result.status = "ExpressCheckoutError"
                /\ ck_result.message = "No valid items in cart"
    /\ (ck_pc = "done" /\ ck_result.message = "No valid items in cart") =>
          /\ \A i \in 1..Len(cart) : cart[i] \notin Catalog
          /\ reservations = <<>> /\ releases = <<>> /\ saved = 0

C13_Witness ==
    /\ ck_pc = "done"
    /\ cart = <<"px", "px">>
    /\ Len(LogOf("get_product_by_id")) = 2
    /\ ck_result.status = "ExpressCheckoutError"
    /\ ck_result.message = "No valid items in cart"

\* C14: on a successful express_checkout the calls are, in this order: all
\* reserve_stock calls, the Order construction, one save_order, then one
\* confirm_reservation per accumulated id in accumulation order; no confirm
\* precedes the successful save_order, and release_stock is never called.
C14_SuccessCallOrder ==
    /\ LogOf("confirm_reservation") # <<>> =>
          /\ saved = 1
          /\ \E k \in 1..Len(ck_log) :
                /\ ck_log[k] = <<"save_order", 1>>
                /\ \A j \in 1..Len(ck_log) :
                      ck_log[j][1] = "confirm_reservation" => k < j
    /\ (ck_pc = "done" /\ ck_result.status = "success") =>
          SelectSeq(ck_log, LAMBDA e : e[1] # "get_product_by_id")
             = [i \in 1..Len(reservations) |-> <<"reserve_stock", reservations[i]>>]
               \o << <<"Order", Len(order_items)>>, <<"save_order", 1>> >>
               \o [i \in 1..Len(reservations) |->
                      <<"confirm_reservation", reservations[i]>>]

C14_Witness ==
    /\ ck_pc = "done"
    /\ ck_result.status = "success"
    /\ reservations = <<1, 2, 3>>
    /\ confirmed = <<1, 2, 3>>
    /\ saved = 1

\* The cart items get_product_by_id resolves, in cart order.
Resolvable(c) == SelectSeq(c, LAMBDA x : x \in Catalog)

\* C15: an unresolvable cart item is skipped without error and without a
\* reserve_stock call; the order items (and items_count) are exactly the
\* resolvable cart items in cart order, with one reservation per order item.
C15_SkipUnresolvable ==
    /\ \E n \in 0..Len(Resolvable(cart)) :
          order_items = SubSeq(Resolvable(cart), 1, n)
    /\ Len(LogOf("reserve_stock")) <= Len(Resolvable(cart))
    /\ (ck_pc = "done" /\ ck_result.status = "success") =>
          /\ order_items = Resolvable(cart)
          /\ ck_result.items_count = Len(Resolvable(cart))
          /\ Len(reservations) = Len(order_items)
          /\ Len(LogOf("reserve_stock")) = Len(order_items)
          /\ Len(LogOf("get_product_by_id")) = Len(cart)

C15_Witness ==
    /\ ck_pc = "done"
    /\ ck_result.status = "success"
    /\ cart = <<"px", "p1", "px">>
    /\ order_items = <<"p1">>
    /\ ck_result.items_count = 1
    /\ reservations = <<1>>

\* No write reached the persistence gateway, no order was saved, and the
\* order and the stored status are as they were.
NoWrite ==
    /\ dbWrites = <<>>
    /\ saved = 0
    /\ history = <<order.status>>
    /\ persisted = order.status

RECURSIVE LinesTotal(_, _)
\* The sum of unit_price * quantity over the first n items.
LinesTotal(items, n) ==
    IF n = 0 THEN 0
    ELSE LinesTotal(items, n - 1) + items[n].unit_price * items[n].quantity

ValidCodeInputs == {"SAVE10", "save10", "FLAT20", "BULK5"}

\* C16: validation errors come with no side effect.  A return request for an
\* unknown user, for an empty item list or for items whose refund is not
\* positive ends in ReturnError with no release_stock and no
\* update_order_status call made; a bulk discount for an unknown user or
\* product, and an order discount with an invalid code or a subtotal below
\* the code's minimum, end in DiscountError with nothing written.
C16_ValidationNoSideEffects ==
    /\ (rt_items = <<>> \/ LinesTotal(rt_items, Len(rt_items)) <= 0)
        => /\ rt_attempts = <<>>
           /\ NoWrite
           /\ rt_pc = "done" => rt_result.type = "ReturnError"
    /\ (rt_pc = "done" /\ rt_result.reason = "user_not_found")
        => /\ rt_result.type = "ReturnError"
           /\ rt_attempts = <<>>
           /\ NoWrite
    /\ bulk_result.reason \in {"user_not_found", "product_not_found"}
        => /\ bulk_result.type = "DiscountError"
           /\ NoWrite
    /\ (/\ disc_result.type # "none"
        /\ \/ disc_result.code \notin ValidCodeInputs
           \/ order.subtotal < DISCOUNT_CODES[Upper(disc_result.code)].min_order)
        => /\ disc_result.type = "DiscountError"
           /\ NoWrite

\* A known user asked to return items that carry a reservation and are worth
\* nothing: the request ended in ReturnError and nothing was released.
C16_Witness ==
    /\ rt_pc = "done"
    /\ rt_result.type = "ReturnError"
    /\ rt_result.reason = "zero_refund"
    /\ Len(rt_items) = 2
    /\ rt_items[1].reservation_id = 1
    /\ rt_attempts = <<>>
    /\ dbWrites = <<>>

\* C17: the discount is gated by can_cancel().  can_cancel() holds exactly
\* in PENDING, CONFIRMED and SHIPPED, the statuses from which
\* update_status(CANCELLED) succeeds; for an order in DELIVERED or CANCELLED
\* the discount call ends in DiscountError for every valid code.
C17_DiscountGatedByCanCancel ==
    /\ can_cancel(order) <=> update_status(order, "CANCELLED").ok
    /\ can_cancel(order) <=> order.status \notin {"DELIVERED", "CANCELLED"}
    /\ (/\ disc_result.type # "none"
        /\ disc_result.code \in ValidCodeInputs
        /\ order.status \in {"DELIVERED", "CANCELLED"})
        => disc_result.type = "DiscountError"

\* A delivered order large enough for FLAT20 was refused the discount
\* because of its status.
C17_Witness ==
    /\ order.status = "DELIVERED"
    /\ order.subtotal = 25000
    /\ disc_result.code = "FLAT20"
    /\ disc_result.type = "DiscountError"
    /\ disc_result.reason = "status"

\* C18: apply_discount_to_order has no effect on the order.  Whether the
\* call returns a record or raises, the order (status, subtotal, tax, total)
\* is the same after the call, and no persistence call is made.
C18_DiscountLeavesOrder ==
    [][svc_op' = "discount" =>
        /\ order' = order
        /\ dbWrites' = dbWrites
        /\ persisted' = persisted
        /\ saved' = saved]_vars

\* SAVE10 was granted on an order of 100.00: the record carries the
\* discounted figures and the order still carries the original ones.
C18_Witness ==
    /\ disc_result.type = "success"
    /\ disc_result.code = "SAVE10"
    /\ disc_result.new_subtotal = 9000
    /\ disc_result.new_total = 9720
    /\ order.subtotal = 10000
    /\ order.total = 10800
    /\ dbWrites = <<>>

\* C19: the bulk tiers.  The discount percent is 15 from 50 units, 10 from
\* 20 to 49, 5 from 10 to 19 and 0 below 10; the unit price is the base
\* price less the discount, rounded to cents, and the subtotal is that unit
\* price times the quantity.
C19_BulkTiers ==
    bulk_result.type = "success" =>
        LET q == bulk_result.quantity
            pct == bulk_result.discount_percent
            exact == bulk_result.base_price * (100 - pct)
            unit == bulk_result.unit_price
        IN  /\ q >= 50 => pct = 15
            /\ (20 <= q /\ q < 50) => pct = 10
            /\ (10 <= q /\ q < 20) => pct = 5
            /\ q < 10 => pct = 0
            /\ 100 * unit - exact <= 50
            /\ exact - 100 * unit <= 50
            /\ bulk_result.subtotal = unit * q

\* Exactly 50 units at 19.99: 15% off the unit price gives 16.99, and the
\* subtotal is 50 times that (not 15% off 999.50, which is 849.58).
C19_Witness ==
    /\ bulk_result.type = "success"
    /\ bulk_result.quantity = 50
    /\ bulk_result.base_price = 1999
    /\ bulk_result.discount_percent = 15
    /\ bulk_result.unit_price = 1699
    /\ bulk_result.subtotal = 84950

\* C20: calculate_refund.  For an empty list the refund is 0; otherwise it
\* is the sum of unit_price * quantity plus a tax credit, the tax credit
\* being 8% of that sum rounded to the nearest cent; one item of 50.00 taken
\* twice gives 108.00.
C20_RefundFormula ==
    refund_result.called =>
        LET items == refund_result.items
            subtotal == LinesTotal(items, Len(items))
            tax_credit == refund_result.refund - subtotal
        IN  IF items = <<>> THEN refund_result.refund = 0
            ELSE /\ 100 * tax_credit - 8 * subtotal <= 50
                 /\ 8 * subtotal - 100 * tax_credit <= 50
                 /\ (Len(items) = 1 /\ items[1].unit_price = 5000
                        /\ items[1].quantity = 2)
                        => refund_result.refund = 10800

\* The refund of one item of 50.00 taken twice was computed as 108.00.
C20_Witness ==
    /\ refund_result.called
    /\ Len(refund_result.items) = 1
    /\ refund_result.items[1].unit_price = 5000
    /\ refund_result.items[1].quantity = 2
    /\ refund_result.refund = 10800

\* C21: concurrent lifecycle operations on one order are not mutually
\* excluded.  While an operation has applied its transition and waits for
\* its persistence write, another request can still begin an operation; and
\* when two operations both wait for their write, either write can be the
\* next to reach the gateway.
C21_NotMutuallyExcluded ==
    \A p, q \in Procs :
        /\ (/\ p # q
            /\ pc[p] = "persist"
            /\ pc[q] \in {"idle", "done"}
            /\ opCount < MaxOps)
            => \A o \in LifecycleOps : ENABLED LifecycleCall(q, o)
        /\ (p # q /\ pc[p] = "persist" /\ pc[q] = "persist")
            => /\ ENABLED LifecyclePersisted(p, op[p])
               /\ ENABLED LifecyclePersisted(q, op[q])

\* mark_as_shipped and cancel_order have both applied their transition (the
\* order went to SHIPPED and then to CANCELLED) and both writes are
\* outstanding; the gateway still holds the initial status.
C21_Witness ==
    /\ pc[1] = "persist" /\ op[1] = "mark_as_shipped"
    /\ pc[2] = "persist" /\ op[2] = "cancel_order"
    /\ history = <<"PENDING", "SHIPPED", "CANCELLED">>
    /\ order.status = "CANCELLED"
    /\ persisted = "PENDING"
    /\ dbWrites = <<>>

\* C22: the status of an order changes only through status transitions.
\* Every status value an operation writes to the persistence gateway is one
\* of the enumerated statuses and is the result of a successful
\* update_status transition made on that order.
C22_WritesAreTransitions ==
    \A i \in 1..Len(dbWrites) :
        /\ dbWrites[i] \in OrderStatus
        /\ \E j \in 2..Len(history) : history[j] = dbWrites[i]

\* C23: CONFIRMED is reachable from PENDING through the order's status
\* operations, the first leg of PENDING -> CONFIRMED -> SHIPPED ->
\* DELIVERED: for an order in PENDING with no operation in flight, some
\* status operation (a lifecycle operation or update_status itself, with
\* any target) takes the order to CONFIRMED.
C23_ConfirmedReachable ==
    (/\ order.status = "PENDING"
     /\ opCount < MaxOps
     /\ \A p \in Procs : pc[p] \in {"idle", "done"})
        => ENABLED (StatusNext /\ order'.status = "CONFIRMED")

\* C24: an express_checkout call that ends in ExpressCheckoutError has
\* persisted no order; in particular a confirm_reservation failure after
\* save_order leaves no saved order whose reservations were released.
C24_FailedCheckoutSavesNothing ==
    (ck_pc = "done" /\ ck_result.status = "ExpressCheckoutError") => saved = 0

\* C25: once the lifecycle operations on an order have ended, with success
\* or with an error, one after the other or interleaved, the in-memory
\* status of the order is the status the persistence gateway holds.
C25_MemoryMatchesGateway ==
    (\A p \in Procs : pc[p] \in {"idle", "done"}) => order.status = persisted

\* The reservation ids the items of a return carry, in item order.
ReservedIds(items) ==
    LET carrying == SelectSeq(items, LAMBDA it : it.reservation_id # 0)
    IN  [i \in 1..Len(carrying) |-> carrying[i].reservation_id]

\* The ids of the release attempts, and of those that reported success.
AttemptedIds == [i \in 1..Len(rt_attempts) |-> rt_attempts[i][1]]

SucceededIds ==
    LET good == SelectSeq(rt_attempts, LAMBDA a : a[2] = "True")
    IN  [i \in 1..Len(good) |-> good[i][1]]

ReleaseRaised == rt_attempts # <<>> /\ Last(rt_attempts)[2] = "raised"

\* C26: process_return releases, then persists.  Releases are attempted in
\* item order for the items that carry a reservation id, and the released
\* list is the ids whose release reported success.  The status write
\* 'refunded' is made once, after every such item had its attempt, also
\* when releases reported failure.  A release that raises ends the call in
\* ReturnError with no status write, the earlier releases staying released.
C26_ReleaseThenPersist ==
    /\ AttemptedIds = SubSeq(ReservedIds(rt_items), 1, Len(rt_attempts))
    /\ rt_released = SucceededIds
    /\ rt_pc = "release" => Len(rt_attempts) < Len(ReservedIds(rt_items))
    /\ rt_pc = "persist" => AttemptedIds = ReservedIds(rt_items)
    /\ dbWrites # <<>> =>
        /\ dbWrites = <<"refunded">>
        /\ AttemptedIds = ReservedIds(rt_items)
        /\ rt_pc = "done" /\ rt_result.type = "approved"
    /\ (rt_pc = "done" /\ rt_result.type = "approved") =>
        /\ dbWrites = <<"refunded">>
        /\ rt_result.released_reservations = SucceededIds
    /\ (rt_pc = "done" /\ rt_attempts # <<>> /\ ~ReleaseRaised) =>
        AttemptedIds = ReservedIds(rt_items)
    /\ ReleaseRaised =>
        /\ rt_pc = "done"
        /\ rt_result.type = "ReturnError"
        /\ dbWrites = <<>>
        /\ persisted = order.status

\* Two items with reservations: the first release reported failure, the
\* second success; the status was written and the result lists only the
\* second id.
C26_Witness ==
    /\ rt_pc = "done"
    /\ rt_attempts = <<<<1, "False">>, <<2, "True">>>>
    /\ rt_result.type = "approved"
    /\ rt_result.released_reservations = <<2>>
    /\ dbWrites = <<"refunded">>

====
